---- MODULE Spec2Model ----
(***************************************************************************)
(* A model of the bank-mail assistant backend: the in-memory record store  *)
(* (contexts, threads, messages), the analytics aggregations computed over *)
(* it, and the in-memory response cache.                                    *)
(*                                                                         *)
(* Time is counted in quarter hours (the mock data spaces messages 15      *)
(* minutes apart).  An optional value is a set: {} is None, {x} is x.      *)
(* A Python str that the code inspects character by character is a         *)
(* sequence of one-character strings; a list is a sequence.                *)
(* Fields that no operation reads back (subject, body, sender_*,           *)
(* context_text, description, generation_time_seconds) are left out of the *)
(* records.                                                                *)
(***************************************************************************)
EXTENDS Integers, Sequences, FiniteSets, TLC

VARIABLES
    now,                \* datetime.now(), in quarter hours
    mockDay,            \* _init_mock_data: the loop's `day`; MockDays once constructed
    contexts,           \* InMemoryStorage.contexts: id -> record
    threads,            \* InMemoryStorage.threads: id -> record
    messages,           \* InMemoryStorage.messages: id -> record
    context_counter,    \* InMemoryStorage._context_counter
    thread_counter,     \* InMemoryStorage._thread_counter
    message_counter,    \* InMemoryStorage._message_counter
    enabled,            \* CacheService._enabled
    cache,              \* CacheService._cache: key -> <<value, expiry>>
    resp                \* the last call and what it returned

storeVars == <<contexts, threads, messages, context_counter, thread_counter, message_counter>>
cacheVars == <<enabled, cache>>
vars == <<now, mockDay, contexts, threads, messages, context_counter, thread_counter,
          message_counter, enabled, cache, resp>>

----------------------------------------------------------------------------
(* Bounds of the model *)

MaxContexts == 4        \* contexts ever created (3 of them are the mock ones)
MaxThreads == 3         \* threads ever created
MaxMessages == 4        \* messages ever created
MaxTicks == 1           \* clock advances seen by the record store
MaxCacheTicks == 2      \* clock advances seen by the cache
MockDays == 2           \* days of mock history (30 in the source)
MaxEntries == 2         \* entries held by the cache at a time

(* Program constants *)

Hour == 4               \* quarter hours in an hour
Day == 96               \* quarter hours in a day
MockContexts == 3       \* contexts created by _init_mock_data
MinMockMessages == 2    \* random.randint(2, 5)
MaxMockMessages == 5
TtlAnalysis == 24       \* hours
TtlGeneration == 12     \* hours

TickStep == 12 * Hour   \* the clock is observed every 12 hours
Now0 == 10 * Day            \* the time of construction, midnight of day 10

None == {}
Some(x) == {x}
Val(o) == CHOOSE x \in o : TRUE

Min(a, b) == IF a <= b THEN a ELSE b
Max(a, b) == IF a >= b THEN a ELSE b

NoResp == [op |-> "none"]

----------------------------------------------------------------------------
(* Python helpers *)

\* dict.values(): insertion order, which is ascending key order here, since
\* every key is taken from a counter that only grows
Values(d) ==
    LET n == IF DOMAIN d = {} THEN 0 ELSE CHOOSE m \in DOMAIN d : \A k \in DOMAIN d : k <= m
        ids == SelectSeq([i \in 1..n |-> i], LAMBDA i : i \in DOMAIN d)
    IN [k \in 1..Len(ids) |-> d[ids[k]]]

\* dict assignment d[k] = v
Put(d, k, v) == [x \in DOMAIN d \cup {k} |-> IF x = k THEN v ELSE d[x]]

\* del d[k]
Del(d, k) == [x \in DOMAIN d \ {k} |-> d[x]]

Whitespace == {" "}

RECURSIVE LStrip(_)
LStrip(s) == IF s # <<>> /\ Head(s) \in Whitespace THEN LStrip(Tail(s)) ELSE s

RECURSIVE RStrip(_)
RStrip(s) ==
    IF s # <<>> /\ s[Len(s)] \in Whitespace THEN RStrip(SubSeq(s, 1, Len(s) - 1)) ELSE s

\* str.strip()
Strip(s) == RStrip(LStrip(s))

\* truthiness of an Optional[list] or Optional[str]: not None and not empty
Truthy(o) == o # None /\ Val(o) # <<>>

----------------------------------------------------------------------------
(* Input domains *)

MockNames == <<"A", "B", "C">>
SomeContextIds == {1, MaxContexts + 1}      \* the first context, and one that never exists
SomeThreadIds == {1, MaxThreads + 1}        \* the first thread, and one that never exists
ContextRefs == {None, Some(1)}
Directives == {None, Some(<<>>), Some(<<"d">>)}
Prompts == {None, Some(<<" ">>), Some(<<" ", "p">>)}
UpdatePrompts ==
    Prompts \cup {Some(<<>>), Some(<<" ", "p", " ">>), Some(<<"p", " ", "q">>)}
MessageTypes == {"incoming", "outgoing"}
\* <<skip, limit>>: the default page, a page inside the list, an empty one, and
\* pages with a negative skip or a negative end
Pages == {<<0, 100>>, <<1, 1>>, <<0, 0>>, <<-1, 2>>, <<0, -1>>}

----------------------------------------------------------------------------
(* InMemoryStorage *)

Init ==
    /\ now = Now0
    /\ mockDay = 0
    /\ contexts = [c \in 1..MockContexts |->
                     [id |-> c, name |-> MockNames[c], created_at |-> Now0, updated_at |-> Now0]]
    /\ threads = <<>>
    /\ messages = <<>>
    /\ context_counter = MockContexts + 1
    /\ thread_counter = 1
    /\ message_counter = 1
    /\ enabled = FALSE
    /\ cache = <<>>
    /\ resp = NoResp

Constructed == mockDay = MockDays

\* create_context
CreateContextIdByLen == Cardinality(DOMAIN contexts) + 1
CreateContextId == context_counter

CreateContext(name) ==
    /\ Constructed
    /\ context_counter <= MaxContexts
    /\ LET context_id == CreateContextId
           context == [id |-> context_id, name |-> name, created_at |-> now, updated_at |-> now]
       IN /\ context_counter' = context_counter + 1
          /\ contexts' = Put(contexts, context_id, context)
          /\ resp' = [op |-> "create_context", id |-> context_id]
    /\ UNCHANGED <<now, mockDay, threads, messages, thread_counter, message_counter, cacheVars>>

\* get_context
GetContextResult(context_id) ==
    IF context_id \in DOMAIN contexts THEN Some(contexts[context_id]) ELSE None

GetContext(context_id) ==
    /\ Constructed
    /\ resp' = [op |-> "get_context", id |-> context_id, result |-> GetContextResult(context_id)]
    /\ UNCHANGED <<now, mockDay, storeVars, cacheVars>>

\* update_context; name is None when the argument is not given
UpdateContextUpsert(context_id, name) ==
    /\ Constructed
    /\ LET context == IF context_id \in DOMAIN contexts THEN contexts[context_id]
                      ELSE [id |-> context_id, name |-> "", created_at |-> now,
                            updated_at |-> now]
           named == IF name # None THEN [context EXCEPT !.name = Val(name)] ELSE context
           updated == [named EXCEPT !.updated_at = now]
       IN /\ contexts' = Put(contexts, context_id, updated)
          /\ resp' = [op |-> "update_context", id |-> context_id, result |-> Some(updated)]
    /\ UNCHANGED <<now, mockDay, threads, messages, context_counter, thread_counter,
                   message_counter, cacheVars>>

UpdateContext(context_id, name) ==
    /\ Constructed
    /\ IF context_id \notin DOMAIN contexts
       THEN /\ resp' = [op |-> "update_context", id |-> context_id, result |-> None]
            /\ UNCHANGED contexts
       ELSE LET context == contexts[context_id]
                named == IF name # None THEN [context EXCEPT !.name = Val(name)] ELSE context
                updated == [named EXCEPT !.updated_at = now]
            IN /\ contexts' = [contexts EXCEPT ![context_id] = updated]
               /\ resp' = [op |-> "update_context", id |-> context_id, result |-> Some(updated)]
    /\ UNCHANGED <<now, mockDay, threads, messages, context_counter, thread_counter,
                   message_counter, cacheVars>>

\* delete_context
DeleteContext(context_id) ==
    /\ Constructed
    /\ IF context_id \in DOMAIN contexts
       THEN /\ contexts' = Del(contexts, context_id)
            /\ resp' = [op |-> "delete_context", id |-> context_id, result |-> TRUE]
       ELSE /\ UNCHANGED contexts
            /\ resp' = [op |-> "delete_context", id |-> context_id, result |-> FALSE]
    /\ UNCHANGED <<now, mockDay, threads, messages, context_counter, thread_counter,
                   message_counter, cacheVars>>

\* create_thread: the arguments are stored as they are given
StoredDirectives(extra_directives) == extra_directives
StoredPrompt(custom_prompt) == custom_prompt

NewThread(thread_id, company_context_id, extra_directives, custom_prompt, t) ==
    [id |-> thread_id,
     company_context_id |-> company_context_id,
     extra_directives |-> StoredDirectives(extra_directives),
     custom_prompt |-> StoredPrompt(custom_prompt),
     created_at |-> t,
     updated_at |-> t]

CreateThread(company_context_id, extra_directives, custom_prompt) ==
    /\ Constructed
    /\ thread_counter <= MaxThreads
    /\ LET thread_id == thread_counter
           thread == NewThread(thread_id, company_context_id, extra_directives, custom_prompt, now)
       IN /\ thread_counter' = thread_counter + 1
          /\ threads' = Put(threads, thread_id, thread)
          /\ resp' = [op |-> "create_thread", id |-> thread_id,
                      extra_directives |-> extra_directives, custom_prompt |-> custom_prompt]
    /\ UNCHANGED <<now, mockDay, contexts, messages, context_counter, message_counter, cacheVars>>

\* get_thread
GetThread(thread_id) ==
    /\ Constructed
    /\ resp' = [op |-> "get_thread", id |-> thread_id,
                result |-> IF thread_id \in DOMAIN threads THEN Some(threads[thread_id]) ELSE None]
    /\ UNCHANGED <<now, mockDay, storeVars, cacheVars>>

\* update_thread_directives
UpdatedDirectives(old, extra_directives) ==
    IF extra_directives # None
    THEN (IF Val(extra_directives) # <<>> THEN extra_directives ELSE None)
    ELSE old

UpdatedPromptUnstripped(old, custom_prompt) ==
    IF custom_prompt # None
    THEN (IF Val(custom_prompt) # <<>> /\ Strip(Val(custom_prompt)) # <<>>
          THEN custom_prompt
          ELSE None)
    ELSE old

UpdatedPrompt(old, custom_prompt) ==
    IF custom_prompt # None
    THEN (IF Val(custom_prompt) # <<>> /\ Strip(Val(custom_prompt)) # <<>>
          THEN Some(Strip(Val(custom_prompt)))
          ELSE None)
    ELSE old

UpdateThreadDirectives(thread_id, extra_directives, custom_prompt) ==
    /\ Constructed
    /\ IF thread_id \notin DOMAIN threads
       THEN /\ resp' = [op |-> "update_thread_directives", id |-> thread_id, result |-> None]
            /\ UNCHANGED threads
       ELSE LET thread == threads[thread_id]
                updated == [thread EXCEPT
                              !.extra_directives = UpdatedDirectives(@, extra_directives),
                              !.custom_prompt = UpdatedPrompt(@, custom_prompt),
                              !.updated_at = now]
            IN /\ threads' = [threads EXCEPT ![thread_id] = updated]
               /\ resp' = [op |-> "update_thread_directives", id |-> thread_id,
                           result |-> Some(updated)]
    /\ UNCHANGED <<now, mockDay, contexts, messages, context_counter, thread_counter,
                   message_counter, cacheVars>>

\* add_message: the thread's updated_at is touched when the thread exists
NewMessage(message_id, thread_id, message_type, t) ==
    [id |-> message_id, thread_id |-> thread_id, message_type |-> message_type, created_at |-> t]

TouchThreadNever(ths, thread_id, t) == ths
TouchThread(ths, thread_id, t) ==
    IF thread_id \in DOMAIN ths
    THEN [ths EXCEPT ![thread_id].updated_at = t]
    ELSE ths

AddMessage(thread_id, message_type) ==
    /\ Constructed
    /\ message_counter <= MaxMessages
    /\ LET message_id == message_counter
       IN /\ message_counter' = message_counter + 1
          /\ messages' = Put(messages, message_id,
                             NewMessage(message_id, thread_id, message_type, now))
          /\ threads' = TouchThread(threads, thread_id, now)
          /\ resp' = [op |-> "add_message", id |-> message_id, thread_id |-> thread_id]
    /\ UNCHANGED <<now, mockDay, contexts, context_counter, thread_counter, cacheVars>>

\* _init_mock_data, one pass of the inner loop: a thread of the day `mockDay`,
\* back-dated, with its random context, directives and prompt and `n` messages
\* 15 minutes apart.  add_message leaves the thread's updated_at at the time of
\* construction.  (How many threads a day gets is left open, 2 to 6 in the source.)
MockBacks == {0, 12 * Hour}
MockDirectives == {None, Some(<<"d">>)}
MockPrompts == {None, Some(<<"p">>)}

MockMessageType(msg_idx) == IF msg_idx % 2 = 0 THEN "incoming" ELSE "outgoing"

MockThread(company_context_id, back, extra_directives, custom_prompt, n) ==
    /\ ~Constructed
    /\ thread_counter <= MaxThreads
    /\ message_counter + n - 1 <= MaxMessages
    /\ LET thread_id == thread_counter
           created == (now - mockDay * Day) - back
           thread == [NewThread(thread_id, company_context_id, None, None, created) EXCEPT
                        !.extra_directives = extra_directives,
                        !.custom_prompt = custom_prompt]
           added == [m \in message_counter..(message_counter + n - 1) |->
                       NewMessage(m, thread_id, MockMessageType(m - message_counter),
                                  created + (m - message_counter) * (Hour \div 4))]
       IN /\ thread_counter' = thread_counter + 1
          /\ message_counter' = message_counter + n
          /\ threads' = TouchThread(Put(threads, thread_id, thread), thread_id, now)
          /\ messages' = [m \in DOMAIN messages \cup DOMAIN added |->
                            IF m \in DOMAIN added THEN added[m] ELSE messages[m]]
    /\ UNCHANGED <<now, mockDay, contexts, context_counter, cacheVars, resp>>

\* the outer loop moves to the next day; after the last day the store is constructed
NextMockDay ==
    /\ ~Constructed
    /\ mockDay' = mockDay + 1
    /\ UNCHANGED <<now, storeVars, cacheVars, resp>>

\* time passes
Tick(max_ticks) ==
    /\ Constructed
    /\ now < Now0 + max_ticks * TickStep
    /\ now' = now + TickStep
    /\ UNCHANGED <<mockDay, storeVars, cacheVars, resp>>

\* get_messages_in_period / get_threads_in_period: both bounds inclusive
MessagesInPeriod(start_date, end_date) ==
    SelectSeq(Values(messages),
              LAMBDA m : start_date <= m.created_at /\ m.created_at <= end_date)

ThreadsInPeriod(start_date, end_date) ==
    SelectSeq(Values(threads),
              LAMBDA t : start_date <= t.created_at /\ t.created_at <= end_date)

----------------------------------------------------------------------------
(* More Python helpers: sorted(), slices, round(), date().isoformat() *)

\* the order of Python tuples and strings; a sort key is a sequence of integers
RECURSIVE LexLess(_, _)
LexLess(a, b) ==
    IF b = <<>> THEN FALSE
    ELSE IF a = <<>> THEN TRUE
    ELSE IF Head(a) # Head(b) THEN Head(a) < Head(b)
    ELSE LexLess(Tail(a), Tail(b))

\* x comes strictly before y in the sort
KeyBefore(x, y, reverse) == IF reverse THEN LexLess(y.key, x.key) ELSE LexLess(x.key, y.key)

\* x is placed behind every element it does not come strictly before
RECURSIVE InsertStable(_, _, _)
InsertStable(x, s, reverse) ==
    IF s = <<>> THEN <<x>>
    ELSE IF KeyBefore(x, Head(s), reverse) THEN <<x>> \o s
    ELSE <<Head(s)>> \o InsertStable(x, Tail(s), reverse)

\* sorted(s, key=..., reverse=...) on a sequence of [key, item]: a stable sort
RECURSIVE StableSort(_, _)
StableSort(s, reverse) ==
    IF s = <<>> THEN <<>>
    ELSE InsertStable(s[Len(s)], StableSort(SubSeq(s, 1, Len(s) - 1), reverse), reverse)

Sorted(s, reverse) ==
    LET r == StableSort(s, reverse) IN [i \in 1..Len(r) |-> r[i].item]

\* s[:limit]
SliceTo(s, limit) ==
    IF limit >= 0
    THEN SubSeq(s, 1, Min(limit, Len(s)))
    ELSE SubSeq(s, 1, Max(0, Len(s) + limit))

\* s[start:stop]: a negative index counts from the end, and both indices are
\* clamped to the sequence
SliceIndex(s, i) == IF i < 0 THEN Max(i + Len(s), 0) ELSE Min(i, Len(s))
Slice(s, start, stop) == SubSeq(s, SliceIndex(s, start) + 1, SliceIndex(s, stop))

\* the keys of a dict filled in the order of s: first occurrences, in order
RECURSIVE FirstSeen(_)
FirstSeen(s) ==
    IF s = <<>> THEN <<>>
    ELSE LET rest == FirstSeen(SubSeq(s, 1, Len(s) - 1))
             x == s[Len(s)]
         IN IF \E i \in 1..Len(rest) : rest[i] = x THEN rest ELSE Append(rest, x)

Count(s, x) == Cardinality({i \in 1..Len(s) : s[i] = x})

\* get_all_threads: sorted by updated_at, newest first, then sliced
SortedByUpdatedAscending(ths) ==
    Sorted([i \in 1..Len(ths) |-> [key |-> <<ths[i].updated_at>>, item |-> ths[i]]], FALSE)
SortedByUpdated(ths) ==
    Sorted([i \in 1..Len(ths) |-> [key |-> <<ths[i].updated_at>>, item |-> ths[i]]], TRUE)

GetAllThreads(skip, limit) == Slice(SortedByUpdated(Values(threads)), skip, skip + limit)

ListThreads(skip, limit) ==
    /\ Constructed
    /\ resp' = [op |-> "list_threads", skip |-> skip, limit |-> limit,
                data |-> GetAllThreads(skip, limit)]
    /\ UNCHANGED <<now, mockDay, storeVars, cacheVars>>

\* created_at.date().isoformat(): the calendar day, zero padded to a fixed
\* width (two digits stand for YYYY-MM-DD)
DateStr(t) == LET d == t \div Day IN <<(d \div 10) % 10, d % 10>>

\* round(n / d * 100, 2) in hundredths of a percent, halves to even
RoundPercent(n, d) ==
    LET q == (n * 10000) \div d
        r == (n * 10000) % d
    IN IF 2 * r > d \/ (2 * r = d /\ q % 2 = 1) THEN q + 1 ELSE q

----------------------------------------------------------------------------
(* analytics_routes *)

Days == {0, 1, 30}
Limits == {-1, 0, 2}
CatchAll == "NoContext"     \* the label of the threads without context

PeriodThreads(days) == ThreadsInPeriod(now - days * Day, now)
PeriodMessages(days) == MessagesInPeriod(now - days * Day, now)

\* threads whose extra_directives is a non-empty list
WithDirectivesAll(ths) == Len(SelectSeq(Values(threads), LAMBDA t : Truthy(t.extra_directives)))
WithDirectives(ths) == Len(SelectSeq(ths, LAMBDA t : Truthy(t.extra_directives)))

\* get_overview
IncomingCountAll(msgs) ==
    Len(SelectSeq(Values(messages), LAMBDA m : m.message_type = "incoming"))
IncomingCount(msgs) == Len(SelectSeq(msgs, LAMBDA m : m.message_type = "incoming"))
OutgoingCount(msgs) == Len(SelectSeq(msgs, LAMBDA m : m.message_type = "outgoing"))

Overview(days) ==
    LET ths == PeriodThreads(days)
        msgs == PeriodMessages(days)
    IN [op |-> "overview",
        period_days |-> days,
        total_threads |-> Len(ths),
        total_messages |-> Len(msgs),
        incoming_messages |-> IncomingCount(msgs),
        outgoing_messages |-> OutgoingCount(msgs),
        threads_with_directives |-> WithDirectives(ths)]

\* get_threads_by_context: a thread with a context id is counted under the
\* context's name when the context is found; a thread without one is counted
\* in threads_without_context
HasContextId(t) == t.company_context_id # None /\ Val(t.company_context_id) # 0

Resolves(t) == HasContextId(t) /\ GetContextResult(Val(t.company_context_id)) # None

ThreadsByContext(days) ==
    LET ths == PeriodThreads(days)
        named == SelectSeq(ths, Resolves)
        names == [i \in 1..Len(named) |-> contexts[Val(named[i].company_context_id)].name]
        keys == FirstSeen(names)
        threads_without_context == Len(SelectSeq(ths, LAMBDA t : ~HasContextId(t)))
        data == [i \in 1..Len(keys) |-> [name |-> keys[i], count |-> Count(names, keys[i])]]
    IN [op |-> "threads_by_context",
        period_days |-> days,
        data |-> IF threads_without_context > 0
                 THEN Append(data, [name |-> CatchAll, count |-> threads_without_context])
                 ELSE data]

\* get_threads_growth
SortedDatesUnsorted(keys) == keys
SortedDates(keys) == Sorted([i \in 1..Len(keys) |-> [key |-> keys[i], item |-> keys[i]]], FALSE)

RECURSIVE GrowthData(_, _, _)
GrowthData(dates, all, cumulative) ==
    IF dates = <<>> THEN <<>>
    ELSE LET count == Count(all, Head(dates))
         IN <<[date |-> Head(dates), daily |-> count, cumulative |-> cumulative + count]>>
            \o GrowthData(Tail(dates), all, cumulative + count)

ThreadsGrowth(days) ==
    LET ths == PeriodThreads(days)
        all == [i \in 1..Len(ths) |-> DateStr(ths[i].created_at)]
    IN [op |-> "threads_growth",
        period_days |-> days,
        data |-> GrowthData(SortedDates(FirstSeen(all)), all, 0)]

\* get_top_threads
ThreadMessages(thread_id) ==
    LET own == SelectSeq(Values(messages), LAMBDA m : m.thread_id = thread_id)
    IN Sorted([i \in 1..Len(own) |-> [key |-> <<own[i].created_at>>, item |-> own[i]]], FALSE)

SortedByCountReversed(thread_data) ==
    LET up == Sorted([i \in 1..Len(thread_data) |->
                        [key |-> <<thread_data[i].message_count>>, item |-> thread_data[i]]], FALSE)
    IN [i \in 1..Len(up) |-> up[Len(up) + 1 - i]]
SortedByCount(thread_data) ==
    Sorted([i \in 1..Len(thread_data) |->
              [key |-> <<thread_data[i].message_count>>, item |-> thread_data[i]]], TRUE)

TopThreads(limit, days) ==
    LET ths == PeriodThreads(days)
        thread_data == [i \in 1..Len(ths) |->
                          [id |-> ths[i].id,
                           message_count |-> Len(ThreadMessages(ths[i].id)),
                           created_at |-> ths[i].created_at,
                           updated_at |-> ths[i].updated_at]]
    IN [op |-> "top_threads",
        period_days |-> days,
        limit |-> limit,
        data |-> SliceTo(SortedByCount(thread_data), limit)]

\* get_directives_usage; the percentage is in hundredths
DirectivesUsage(days) ==
    LET ths == PeriodThreads(days)
        total_threads == Len(ths)
        threads_with_directives == WithDirectives(ths)
    IN [op |-> "directives_usage",
        period_days |-> days,
        total_threads |-> total_threads,
        threads_with_directives |-> threads_with_directives,
        threads_with_custom_prompt |-> Len(SelectSeq(ths, LAMBDA t : Truthy(t.custom_prompt))),
        directives_usage_percentage |->
            IF total_threads > 0 THEN RoundPercent(threads_with_directives, total_threads) ELSE 0]

\* a request to one of the analytics routes; the time of the request is kept
\* with the response
Query(result) ==
    /\ Constructed
    /\ resp' = result @@ [at |-> now]
    /\ UNCHANGED <<now, mockDay, storeVars, cacheVars>>

GetOverview(days) == Query(Overview(days))
GetThreadsByContext(days) == Query(ThreadsByContext(days))
GetThreadsGrowth(days) == Query(ThreadsGrowth(days))
GetTopThreads(limit, days) == Query(TopThreads(limit, days))
GetDirectivesUsage(days) == Query(DirectivesUsage(days))

\* _init_mock_data with the random choices drawn from the given sets
MockCounts == MinMockMessages..MaxMockMessages

Construct(C, D, P, N) ==
    \/ \E c \in C, back \in MockBacks, d \in D, p \in P, n \in N : MockThread(c, back, d, p, n)
    \/ NextMockDay

\* the record store alone: every operation that writes, on an id that is
\* present and on one that is missing
NextStore ==
    \/ Construct({None}, {None}, {None}, {MinMockMessages})
    \/ CreateContext("A")
    \/ \E id \in SomeContextIds : UpdateContext(id, Some("B"))
    \/ \E id \in SomeContextIds : DeleteContext(id)
    \/ CreateThread(None, None, None)
    \/ \E id \in SomeThreadIds : UpdateThreadDirectives(id, Some(<<"d">>), None)
    \/ \E id \in SomeThreadIds : AddMessage(id, "incoming")

\* threads and their messages, as time passes
NextMessages ==
    \/ Construct({None}, {None}, {None}, {MinMockMessages})
    \/ Tick(MaxTicks)
    \/ CreateThread(None, None, None)
    \/ \E id \in SomeThreadIds : AddMessage(id, "incoming")

\* threads and their directives
NextThreads ==
    \/ Construct({None}, MockDirectives, MockPrompts, {MinMockMessages})
    \/ Tick(MaxTicks)
    \/ \E d \in Directives, p \in Prompts : CreateThread(None, d, p)
    \/ \E id \in SomeThreadIds, d \in Directives, p \in Prompts :
          UpdateThreadDirectives(id, d, p)

\* the store and one analytics route each, with the inputs the route reads
NextOverview ==
    \/ Construct({None}, {None}, {None}, MockCounts)
    \/ Tick(MaxTicks)
    \/ \E type \in MessageTypes : AddMessage(1, type)
    \/ \E days \in Days : GetOverview(days)

NextByContext ==
    \/ Construct(ContextRefs, {None}, {None}, {MinMockMessages})
    \/ CreateContext("A")
    \/ \E id \in SomeContextIds : DeleteContext(id)
    \/ \E c \in ContextRefs : CreateThread(c, None, None)
    \/ \E days \in Days : GetThreadsByContext(days)

NextGrowth ==
    \/ Construct({None}, {None}, {None}, {MinMockMessages})
    \/ Tick(MaxTicks)
    \/ CreateThread(None, None, None)
    \/ \E days \in Days : GetThreadsGrowth(days)

NextTop ==
    \/ Construct({None}, {None}, {None}, MockCounts)
    \/ CreateThread(None, None, None)
    \/ \E id \in 1..MaxThreads : AddMessage(id, "incoming")
    \/ \E limit \in Limits, days \in Days : GetTopThreads(limit, days)

NextUsage ==
    \/ Construct({None}, MockDirectives, {None}, {MinMockMessages})
    \/ Tick(MaxTicks)
    \/ \E d \in Directives : CreateThread(None, d, None)
    \/ \E id \in SomeThreadIds, d \in Directives : UpdateThreadDirectives(id, d, None)
    \/ \E days \in Days : GetDirectivesUsage(days)

\* the operations that take an id, on an id that is present, on one that was
\* deleted and on one that never existed
NextLookup ==
    \/ Construct({None}, {None}, {None}, {MinMockMessages})
    \/ CreateContext("A")
    \/ CreateThread(None, None, None)
    \/ \E id \in SomeContextIds : GetContext(id)
    \/ \E id \in SomeContextIds, name \in {None, Some("B")} : UpdateContext(id, name)
    \/ \E id \in SomeContextIds : DeleteContext(id)
    \/ \E id \in SomeThreadIds : GetThread(id)
    \/ \E id \in SomeThreadIds, d \in Directives : UpdateThreadDirectives(id, d, None)

\* the directives and the prompt of a thread updated, as time passes
NextDirectives ==
    \/ Construct({None}, {None}, {None}, {MinMockMessages})
    \/ Tick(MaxTicks)
    \/ \E id \in SomeThreadIds, d \in Directives, p \in UpdatePrompts :
          UpdateThreadDirectives(id, d, p)

\* threads listed while messages arrive, as time passes
NextList ==
    \/ MockThread(None, 0, None, None, MinMockMessages)
    \/ NextMockDay
    \/ Tick(MaxTicks)
    \/ CreateThread(None, None, None)
    \/ \E id \in {2, MaxThreads + 1} : AddMessage(id, "incoming")
    \/ \E page \in Pages : ListThreads(page[1], page[2])

Spec == Init /\ [][NextStore]_vars
SpecLookup == Init /\ [][NextLookup]_vars
SpecDirectives == Init /\ [][NextDirectives]_vars
SpecList == Init /\ [][NextList]_vars
SpecMessages == Init /\ [][NextMessages]_vars
SpecThreads == Init /\ [][NextThreads]_vars
SpecOverview == Init /\ [][NextOverview]_vars
SpecByContext == Init /\ [][NextByContext]_vars
SpecGrowth == Init /\ [][NextGrowth]_vars
SpecTop == Init /\ [][NextTop]_vars
SpecUsage == Init /\ [][NextUsage]_vars

----------------------------------------------------------------------------
(* The record store's claims *)

\* C3: create_thread normalises its inputs: an empty extra_directives list is
\* stored as absent, and a custom_prompt that is blank after trimming is stored
\* as absent.  (Checked under SpecThreads; the code stores both as given.)
C3_CreateNormalizes ==
    resp.op = "create_thread" =>
        /\ resp.extra_directives = Some(<<>>) => threads[resp.id].extra_directives = None
        /\ (resp.custom_prompt # None /\ Strip(Val(resp.custom_prompt)) = <<>>)
              => threads[resp.id].custom_prompt = None

\* C9: ids are unique within each collection, each newly assigned id is greater
\* than every id assigned before in that collection, and an id freed by
\* delete_context is never assigned again.
IdsBelow(c, counter) == \A k \in DOMAIN c : c[k].id = k /\ k < counter

AssignsFresh(c, c2, counter, counter2) ==
    LET new == DOMAIN c2 \ DOMAIN c
    IN /\ counter2 >= counter
       /\ Cardinality(new) = counter2 - counter
       /\ \A k \in new : counter <= k /\ k < counter2
       /\ \A k \in DOMAIN c \cap DOMAIN c2 : c2[k].id = c[k].id /\ c2[k].created_at = c[k].created_at

C9_IdsInv ==
    /\ IdsBelow(contexts, context_counter)
    /\ IdsBelow(threads, thread_counter)
    /\ IdsBelow(messages, message_counter)

C9_Ids ==
    /\ []C9_IdsInv
    /\ [][/\ AssignsFresh(contexts, contexts', context_counter, context_counter')
          /\ AssignsFresh(threads, threads', thread_counter, thread_counter')
          /\ AssignsFresh(messages, messages', message_counter, message_counter')]_vars

\* a context was created after the first mock context had been deleted
C9_Witness ==
    /\ resp.op = "create_context"
    /\ 1 \notin DOMAIN contexts
    /\ resp.id \in DOMAIN contexts /\ resp.id > MockContexts

\* C10, as claimed: add_message never adds a message whose thread_id does not
\* identify a thread that exists at that moment.
C10_ThreadExists ==
    [][\A m \in DOMAIN messages' \ DOMAIN messages :
          Constructed => messages'[m].thread_id \in DOMAIN threads]_vars

\* C10, amended: add_message stores the message under the thread_id it is
\* given whether or not such a thread exists; when the thread exists its
\* updated_at becomes the current time and nothing else of it changes, and when
\* it does not exist no thread is created or changed.
C10_AddMessage ==
    [][(Constructed /\ message_counter' # message_counter) =>
          LET m == message_counter
              tid == resp'.thread_id
          IN /\ resp'.op = "add_message" /\ resp'.id = m
             /\ m \in DOMAIN messages' /\ messages'[m].thread_id = tid
             /\ messages'[m].created_at = now
             /\ DOMAIN threads' = DOMAIN threads
             /\ \A t \in DOMAIN threads :
                   threads'[t] = IF t = tid THEN [threads[t] EXCEPT !.updated_at = now]
                                 ELSE threads[t]]_vars

\* a message was stored for a thread id that identifies no thread
C10_Witness ==
    /\ resp.op = "add_message"
    /\ resp.thread_id \notin DOMAIN threads
    /\ resp.id \in DOMAIN messages /\ messages[resp.id].thread_id = resp.thread_id

\* C11: get_context, update_context, delete_context, get_thread and
\* update_thread_directives, called with an id that is not in the store, return
\* absent (false for delete_context) and leave the three collections and the
\* three id counters as they were.
C11_ContextMissing ==
    /\ resp'.op \in {"get_context", "update_context", "delete_context"}
    /\ resp'.id \notin DOMAIN contexts

C11_ThreadMissing ==
    /\ resp'.op \in {"get_thread", "update_thread_directives"}
    /\ resp'.id \notin DOMAIN threads

C11_Missing ==
    [][(Constructed /\ now' = now /\ (C11_ContextMissing \/ C11_ThreadMissing)) =>
          /\ resp'.result = IF resp'.op = "delete_context" THEN FALSE ELSE None
          /\ storeVars' = storeVars]_vars

\* update_thread_directives answered absent for an id that never existed, in a
\* store that holds a thread and has lost its first context
C11_Witness ==
    /\ resp.op = "update_thread_directives" /\ resp.id \notin DOMAIN threads
    /\ resp.result = None
    /\ threads # <<>> /\ 1 \notin DOMAIN contexts

\* C13: update_thread_directives on a thread that exists stores absent
\* extra_directives for a given empty list and absent custom_prompt for a given
\* prompt that is blank after trimming, stores a non-blank prompt trimmed,
\* leaves the field of an argument that is not given as it was, and sets the
\* thread's updated_at to the current time; nothing else of the thread changes.
C13_Blank(given) == \A k \in 1..Len(given) : given[k] \in Whitespace

C13_Trimmed(stored, given) ==
    \E i, j \in 1..Len(given) :
        /\ i <= j /\ stored = [k \in 1..(j - i + 1) |-> given[i + k - 1]]
        /\ given[i] \notin Whitespace /\ given[j] \notin Whitespace
        /\ \A k \in 1..Len(given) : (k < i \/ k > j) => given[k] \in Whitespace

C13_Expected(old, new, extra_directives, custom_prompt) ==
    /\ extra_directives = None => new.extra_directives = old.extra_directives
    /\ extra_directives = Some(<<>>) => new.extra_directives = None
    /\ (extra_directives # None /\ extra_directives # Some(<<>>)) =>
          new.extra_directives = extra_directives
    /\ custom_prompt = None => new.custom_prompt = old.custom_prompt
    /\ (custom_prompt # None /\ C13_Blank(Val(custom_prompt))) => new.custom_prompt = None
    /\ (custom_prompt # None /\ ~C13_Blank(Val(custom_prompt))) =>
          /\ new.custom_prompt # None
          /\ C13_Trimmed(Val(new.custom_prompt), Val(custom_prompt))
    /\ new.updated_at = now
    /\ new.id = old.id /\ new.created_at = old.created_at
    /\ new.company_context_id = old.company_context_id

C13_UpdateNormalizes ==
    [][\A id \in DOMAIN threads, d \in Directives, p \in UpdatePrompts :
          UpdateThreadDirectives(id, d, p) =>
             /\ C13_Expected(threads[id], threads'[id], d, p)
             /\ resp'.result = Some(threads'[id])]_vars

\* after the clock advanced, an update gave no directives and a prompt with
\* blanks around it: the directives set before stayed, the prompt was trimmed
C13_Witness ==
    /\ resp.op = "update_thread_directives" /\ resp.result # None
    /\ Val(resp.result).extra_directives = Some(<<"d">>)
    /\ Val(resp.result).custom_prompt = Some(<<"p">>)
    /\ Val(resp.result).updated_at = now /\ now > Now0

\* the threads that any newest-first order lists before t, and those it may
C14_Newer(t) == Cardinality({u \in DOMAIN threads : threads[u].updated_at > t.updated_at})
C14_NotOlder(t) == Cardinality({u \in DOMAIN threads : threads[u].updated_at >= t.updated_at})

\* the listing shows the positions lo .. hi - 1 (counted from 0) of the stored
\* threads in an order of non-increasing updated_at
C14_IsWindow(data, lo, hi) ==
    LET first == Max(lo, 0)
        last == Min(hi, Cardinality(DOMAIN threads))
    IN /\ Len(data) = Max(0, last - first)
       /\ \A k \in 1..Len(data) :
             /\ data[k].id \in DOMAIN threads /\ data[k] = threads[data[k].id]
             /\ C14_Newer(data[k]) <= first + k - 1
             /\ first + k - 1 < C14_NotOlder(data[k])
       /\ \A j, k \in 1..Len(data) :
             j < k => (data[j].id # data[k].id /\ data[j].updated_at >= data[k].updated_at)

\* C14, as claimed: get_all_threads(skip, limit) returns the elements at the
\* positions [skip, skip + limit) of the stored threads ordered by updated_at
\* descending.
C14_Original ==
    resp.op = "list_threads" =>
        C14_IsWindow(resp.data, resp.skip, resp.skip + resp.limit)

\* an index below zero counts from the end of the list
C14_FromEnd(i) == IF i < 0 THEN i + Cardinality(DOMAIN threads) ELSE i

C14_Listed ==
    resp.op = "list_threads" =>
        C14_IsWindow(resp.data, C14_FromEnd(resp.skip), C14_FromEnd(resp.skip + resp.limit))

\* all and all2: the whole list that get_all_threads slices, before and after
C14_AddMessageStep ==
    LET tid == resp'.thread_id
        all == SortedByUpdated(Values(threads))
        all2 == SortedByUpdated(Values(threads'))
    IN IF tid \in DOMAIN threads
       THEN /\ threads'[tid].updated_at = now
            /\ \A j, k \in 1..Len(all2) :
                  (j < k /\ all2[k].id = tid) => all2[j].updated_at >= all2[k].updated_at
       ELSE /\ \A t \in DOMAIN threads : threads'[t].updated_at = threads[t].updated_at
            /\ all2 = all

\* C14, amended: for skip >= 0 and skip + limit >= 0 the listing is the
\* positions [skip, skip + limit) of the threads ordered by updated_at
\* descending, and a negative skip or a negative skip + limit counts from the
\* end of that order; after add_message on a thread that exists the thread has
\* the current time as updated_at and no thread listed before it has a smaller
\* one; add_message on an id that identifies no thread changes no updated_at
\* and no order.
C14_ListThreads ==
    [][/\ C14_Listed'
       /\ (Constructed /\ message_counter' # message_counter) => C14_AddMessageStep]_vars

\* the full listing, after a message moved the second thread to the top
C14_Witness ==
    /\ resp.op = "list_threads" /\ resp.skip = 0 /\ resp.limit = 100
    /\ Len(resp.data) = MaxThreads
    /\ resp.data[1].id = 2
    /\ resp.data[1].updated_at > resp.data[2].updated_at
    /\ \E m \in DOMAIN messages :
          messages[m].thread_id = 2 /\ messages[m].created_at = resp.data[1].updated_at

----------------------------------------------------------------------------
(* The analytics routes' claims *)

Data == resp.data
Rows == 1..Len(resp.data)
AtRequest == resp.at = now    \* nothing has changed since the request

\* the threads of the window that have no context id, or one that finds no context
Unresolved(days) == Len(SelectSeq(PeriodThreads(days), LAMBDA t : ~Resolves(t)))

\* C4: in threads-by-context every thread of the window without a context id,
\* or with one that no longer resolves to a stored context, is counted in the
\* catch-all bucket, which comes last and only when its count is > 0.
\* (Checked under SpecByContext; the code leaves the threads of a deleted
\* context out of every bucket.)
C4_CatchAll ==
    (resp.op = "threads_by_context" /\ AtRequest) =>
        LET n == Unresolved(resp.period_days)
        IN /\ \A i \in Rows : Data[i].name = CatchAll => i = Len(Data)
           /\ n > 0 => (Data # <<>> /\ Data[Len(Data)] = [name |-> CatchAll, count |-> n])
           /\ n = 0 => \A i \in Rows : Data[i].name # CatchAll

\* the place of a thread in the scan of the store
ScanPos(id) == CHOOSE i \in 1..Len(Values(threads)) : Values(threads)[i].id = id

SortedStable ==
    \A i, j \in Rows : i < j =>
        /\ Data[i].message_count >= Data[j].message_count
        /\ Data[i].message_count = Data[j].message_count => ScanPos(Data[i].id) < ScanPos(Data[j].id)

\* C5, as claimed: for every integer limit the top-threads list has at most
\* limit rows, is sorted by message_count descending, and rows of equal
\* message_count keep the order of the scan.
C5_Original ==
    resp.op = "top_threads" => (Len(Data) <= resp.limit /\ SortedStable)

\* C5, amended: for every limit >= 0 the list has at most limit rows; for a
\* negative limit it is the sorted list without its last -limit rows; for every
\* limit it is sorted by message_count descending and stable.
C5_TopThreads ==
    resp.op = "top_threads" =>
        /\ resp.limit >= 0 => Len(Data) <= resp.limit
        /\ (resp.limit < 0 /\ AtRequest) =>
              Len(Data) = Max(0, Len(PeriodThreads(resp.period_days)) + resp.limit)
        /\ SortedStable

\* three threads in the window, cut to two rows that tie on a positive count
C5_Witness ==
    /\ resp.op = "top_threads" /\ AtRequest /\ resp.limit = 2
    /\ Len(PeriodThreads(resp.period_days)) > 2
    /\ Len(Data) = 2 /\ Data[1].message_count = Data[2].message_count
    /\ Data[1].message_count > 0

RECURSIVE SumDaily(_, _)
SumDaily(data, i) == IF i = 0 THEN 0 ELSE data[i].daily + SumDaily(data, i - 1)

\* C6: the threads-growth list has strictly ascending dates, every daily count
\* is >= 1, cumulative never decreases and is the sum of the daily counts up to
\* and including the entry; the last cumulative is the number of threads in the
\* window.
C6_Growth ==
    resp.op = "threads_growth" =>
        /\ \A i, j \in Rows : i < j =>
              /\ LexLess(Data[i].date, Data[j].date)
              /\ Data[i].cumulative <= Data[j].cumulative
        /\ \A i \in Rows : Data[i].daily >= 1 /\ Data[i].cumulative = SumDaily(Data, i)
        /\ AtRequest =>
              (IF Data = <<>> THEN 0 ELSE Data[Len(Data)].cumulative)
                  = Len(PeriodThreads(resp.period_days))

\* two dates, the later one met first in the scan, one of them with two threads
C6_Witness ==
    /\ resp.op = "threads_growth" /\ AtRequest
    /\ Len(Data) = 2 /\ Data[2].cumulative = 3
    /\ 1 \in DOMAIN threads /\ DateStr(threads[1].created_at) = Data[2].date

C8_Usage ==
    resp.op = "directives_usage" =>
        /\ 0 <= resp.directives_usage_percentage
        /\ resp.directives_usage_percentage <= 100 * 100
        /\ resp.total_threads = 0 => resp.directives_usage_percentage = 0

\* a window that holds no thread while the store holds one with directives
C8_Witness ==
    /\ resp.op = "directives_usage" /\ AtRequest
    /\ resp.total_threads = 0 /\ resp.directives_usage_percentage = 0
    /\ \E t \in DOMAIN threads : Truthy(threads[t].extra_directives)

----------------------------------------------------------------------------
(* CacheService *)

Namespaces == {<<"a", "n">>, <<"g", "e">>}
ArgTuples == {<<"x">>, <<"y">>}
CacheValues == {"r1", "r2"}
Ttls == {TtlGeneration, TtlAnalysis}
Patterns == {<<>>, <<"a">>, <<"a", "n">>, <<"g", "e", ":">>}

\* json.dumps(args) then sha256(...).hexdigest(): the digest is taken to be
\* collision free, one token sequence per serialised argument tuple
Sha256Hex(args) == <<"#">> \o args

\* _generate_key: f"bizmail:{prefix}:{key_hash}"
GenerateKey(prefix, args) == <<"bizmail:">> \o prefix \o <<":">> \o Sha256Hex(args)

\* the guard `if not self._enabled`
DisabledNever == FALSE
Disabled == ~enabled

\* datetime.now() < expiry
FreshInclusive(t, expiry) == t <= expiry
Fresh(t, expiry) == t < expiry

\* the attribute _enabled is set by whoever turns the cache on or off
SetEnabled(b) ==
    /\ Constructed
    /\ enabled' = b
    /\ UNCHANGED <<now, mockDay, storeVars, cache, resp>>

\* get
Get(prefix, args) ==
    /\ Constructed
    /\ LET key == GenerateKey(prefix, args)
           call == [op |-> "get", enabled |-> enabled, prefix |-> prefix, args |-> args]
       IN IF Disabled
          THEN /\ resp' = call @@ [result |-> None]
               /\ UNCHANGED cache
          ELSE IF key \in DOMAIN cache
               THEN IF Fresh(now, cache[key][2])
                    THEN /\ resp' = call @@ [result |-> Some(cache[key][1])]
                         /\ UNCHANGED cache
                    ELSE /\ cache' = Del(cache, key)
                         /\ resp' = call @@ [result |-> None]
               ELSE /\ resp' = call @@ [result |-> None]
                    /\ UNCHANGED cache
    /\ UNCHANGED <<now, mockDay, storeVars, enabled>>

\* set
Set(prefix, value, ttl_hours, args) ==
    /\ Constructed
    /\ Disabled \/ Cardinality(DOMAIN cache \cup {GenerateKey(prefix, args)}) <= MaxEntries
    /\ LET key == GenerateKey(prefix, args)
           call == [op |-> "set", enabled |-> enabled, prefix |-> prefix, args |-> args,
                    at |-> now, value |-> value, ttl_hours |-> ttl_hours]
       IN IF Disabled
          THEN /\ resp' = call @@ [result |-> FALSE]
               /\ UNCHANGED cache
          ELSE /\ cache' = Put(cache, key, <<value, now + ttl_hours * Hour>>)
               /\ resp' = call @@ [result |-> TRUE]
    /\ UNCHANGED <<now, mockDay, storeVars, enabled>>

\* str.startswith
StartsWithShort(s, p) ==
    Len(p) <= Len(s) /\ SubSeq(s, 1, Len(p) - 1) = SubSeq(p, 1, Len(p) - 1)

StartsWith(s, p) == Len(p) <= Len(s) /\ SubSeq(s, 1, Len(p)) = p

\* clear_pattern
ClearPattern(pattern) ==
    /\ Constructed
    /\ LET call == [op |-> "clear_pattern", enabled |-> enabled, pattern |-> pattern]
           keys_to_delete == {k \in DOMAIN cache : StartsWith(k, <<"bizmail:">> \o pattern)}
       IN IF Disabled
          THEN /\ resp' = call @@ [result |-> 0]
               /\ UNCHANGED cache
          ELSE /\ cache' = [k \in DOMAIN cache \ keys_to_delete |-> cache[k]]
               /\ resp' = call @@ [result |-> Cardinality(keys_to_delete)]
    /\ UNCHANGED <<now, mockDay, storeVars, enabled>>

NextCache ==
    \/ NextMockDay
    \/ Tick(MaxCacheTicks)
    \/ \E b \in BOOLEAN : SetEnabled(b)
    \/ \E prefix \in Namespaces, args \in ArgTuples : Get(prefix, args)
    \/ \E prefix \in Namespaces, value \in CacheValues, ttl_hours \in Ttls, args \in ArgTuples :
          Set(prefix, value, ttl_hours, args)
    \/ \E pattern \in Patterns : ClearPattern(pattern)

SpecCache == Init /\ [][NextCache]_vars

\* the cache filled and cleared, with entries of both lifetimes
NextClear ==
    \/ NextMockDay
    \/ \E b \in BOOLEAN : SetEnabled(b)
    \/ \E prefix \in Namespaces, ttl_hours \in Ttls, args \in ArgTuples :
          Set(prefix, "r1", ttl_hours, args)
    \/ \E pattern \in Patterns : ClearPattern(pattern)

SpecClear == Init /\ [][NextClear]_vars

----------------------------------------------------------------------------
(* The cache's claims, under SpecCache *)

\* C1: with the cache enabled, a get that follows a set of the same namespace
\* and arguments (ttl_hours > 0) returns the value that was set while the clock
\* is strictly before the set time plus ttl_hours; once the clock has reached
\* that expiry the get returns absent and the entry is gone from the cache.
C1_SetThenGet ==
    [][(/\ resp.op = "set" /\ resp.result /\ resp.ttl_hours > 0
        /\ resp'.op = "get" /\ resp'.enabled
        /\ resp'.prefix = resp.prefix /\ resp'.args = resp.args)
       => IF now' < resp.at + resp.ttl_hours * Hour
          THEN resp'.result = Some(resp.value)
          ELSE /\ resp'.result = None
               /\ GenerateKey(resp.prefix, resp.args) \notin DOMAIN cache']_vars

\* a get that hit an entry set before the clock last advanced
C1_Witness ==
    /\ resp.op = "get" /\ resp.enabled /\ resp.result # None
    /\ now > Now0
    /\ \E k \in DOMAIN cache : cache[k][2] <= now + TickStep

\* C2: while the enabled flag is false, get returns absent, set returns false,
\* clear_pattern returns 0, and no step changes the stored entries.
C2_DisabledResult ==
    /\ (resp.op = "get" /\ ~resp.enabled) => resp.result = None
    /\ (resp.op = "set" /\ ~resp.enabled) => resp.result = FALSE
    /\ (resp.op = "clear_pattern" /\ ~resp.enabled) => resp.result = 0

C2_DisabledNoOp == []C2_DisabledResult /\ [][~enabled => cache' = cache]_vars

\* a set was refused while the cache, disabled, still held an entry
C2_Witness == resp.op = "set" /\ ~resp.enabled /\ ~enabled /\ cache # <<>>

\* C12: with the cache enabled, clear_pattern(p) removes exactly the entries
\* whose key starts with "bizmail:" followed by p, returns how many it removed
\* and leaves every other entry in place with its value and expiry; a second
\* clear_pattern(p) with no set in between returns 0.
C12_KeyMatches(k, p) ==
    LET q == <<"bizmail:">> \o p
    IN Len(q) <= Len(k) /\ \A i \in 1..Len(q) : k[i] = q[i]

C12_ClearStep ==
    /\ Constructed /\ enabled /\ enabled' = enabled /\ now' = now
    /\ resp'.op = "clear_pattern" /\ resp'.enabled

C12_Clear ==
    [][C12_ClearStep =>
          LET removed == {k \in DOMAIN cache : C12_KeyMatches(k, resp'.pattern)}
          IN /\ DOMAIN cache' = DOMAIN cache \ removed
             /\ resp'.result = Cardinality(removed)
             /\ \A k \in DOMAIN cache' : cache'[k] = cache[k]
             /\ (resp.op = "clear_pattern" /\ resp.enabled
                    /\ resp.pattern = resp'.pattern) => resp'.result = 0]_vars

\* a clear that named part of a namespace removed one entry and spared another
C12_Witness ==
    /\ resp.op = "clear_pattern" /\ resp.enabled /\ resp.pattern = <<"a">>
    /\ resp.result = 1
    /\ \E k \in DOMAIN cache : ~C12_KeyMatches(k, resp.pattern)
====
